---- MODULE Spec2Model ----
(***************************************************************************)
(* A model of the Opsbeacon MCP server: the OpsbeaconClient (its lazily    *)
(* created HTTP session and its four operations) and the tool dispatcher   *)
(* handle_call_tool of src/src/mcp_opsbeacon_server/server.py.             *)
(*                                                                         *)
(* Python values are tagged records ([str |-> ..], [int |-> ..],           *)
(* [list |-> ..], [dict |-> ..], [none |-> TRUE]); a dict is the ordered   *)
(* sequence of its <<key, value>> pairs.  A completion is either           *)
(* [k |-> "return", value |-> v] or [k |-> "raise", exc |-> class,         *)
(* msg |-> str(e)].                                                        *)
(***************************************************************************)
EXTENDS Integers, Sequences, FiniteSets, TLC

VARIABLES session, closedS, created, initialized, pc, call, request,
          reqCount, outcome, result, lastOp, closeRun

vars == <<session, closedS, created, initialized, pc, call, request,
          reqCount, outcome, result, lastOp, closeRun>>

(***************************************************************************)
(* Bounds of the model.                                                    *)
(***************************************************************************)
MaxSessions == 3
MaxArgs == 2

(***************************************************************************)
(* Python values.                                                          *)
(***************************************************************************)
PyNone == [none |-> TRUE]
PyStr(s) == [str |-> s]
PyInt(n) == [int |-> n]
PyList(xs) == [list |-> xs]
PyDict(kvs) == [dict |-> kvs]

IsNone(v) == "none" \in DOMAIN v
IsStr(v) == "str" \in DOMAIN v
IsInt(v) == "int" \in DOMAIN v
IsList(v) == "list" \in DOMAIN v
IsDict(v) == "dict" \in DOMAIN v

\* Python truthiness (bool(v)): None, "", 0, [] and {} are falsy.
Truthy(v) ==
  IF IsNone(v) THEN FALSE
  ELSE IF IsStr(v) THEN v.str # ""
  ELSE IF IsInt(v) THEN v.int # 0
  ELSE IF IsList(v) THEN v.list # <<>>
  ELSE v.dict # <<>>

\* key in d
HasKey(d, key) == \E i \in 1..Len(d.dict) : d.dict[i][1] = key

\* d[key] for a key that is present
Lookup(d, key) ==
  d.dict[CHOOSE i \in 1..Len(d.dict) : d.dict[i][1] = key][2]

\* d.get(key, default)
DictGet(d, key, default) == IF HasKey(d, key) THEN Lookup(d, key) ELSE default

Return(v) == [k |-> "return", value |-> v]
Raise(cls, m) == [k |-> "raise", exc |-> cls, msg |-> m]

(***************************************************************************)
(* Text conversions.                                                       *)
(***************************************************************************)
Digits == <<"0", "1", "2", "3", "4", "5", "6", "7", "8", "9">>

CharAt(s, i) == SubSeq(s, i, i)

\* str(n) for a non-negative int
RECURSIVE IntToStr(_)
IntToStr(n) ==
  IF n < 10 THEN Digits[n + 1] ELSE IntToStr(n \div 10) \o Digits[(n % 10) + 1]

RECURSIVE PyRepr(_)
RECURSIVE ReprItems(_, _)
RECURSIVE ReprPairs(_, _)
\* repr(v)
PyRepr(v) ==
  IF IsNone(v) THEN "None"
  ELSE IF IsStr(v) THEN "'" \o v.str \o "'"
  ELSE IF IsInt(v) THEN IntToStr(v.int)
  ELSE IF IsList(v) THEN "[" \o ReprItems(v.list, 1) \o "]"
  ELSE "{" \o ReprPairs(v.dict, 1) \o "}"
ReprItems(xs, i) ==
  IF i > Len(xs) THEN ""
  ELSE (IF i > 1 THEN ", " ELSE "") \o PyRepr(xs[i]) \o ReprItems(xs, i + 1)
ReprPairs(kvs, i) ==
  IF i > Len(kvs) THEN ""
  ELSE (IF i > 1 THEN ", " ELSE "") \o "'" \o kvs[i][1] \o "': "
       \o PyRepr(kvs[i][2]) \o ReprPairs(kvs, i + 1)

\* str(v): a str is itself, everything else is its repr
PyToStr(v) == IF IsStr(v) THEN v.str ELSE PyRepr(v)

(***************************************************************************)
(* Dates: datetime.now(), today - timedelta(days=n), strftime("%Y%m%d").   *)
(* A date is its proleptic Gregorian ordinal (0001-01-01 is day 1), as in  *)
(* Python's datetime.                                                      *)
(***************************************************************************)
IsLeap(y) == y % 4 = 0 /\ (y % 100 # 0 \/ y % 400 = 0)

DaysInMonth(y, m) ==
  IF m = 2 THEN (IF IsLeap(y) THEN 29 ELSE 28)
  ELSE IF m \in {4, 6, 9, 11} THEN 30 ELSE 31

DaysBeforeYear(y) ==
  (y - 1) * 365 + ((y - 1) \div 4) - ((y - 1) \div 100) + ((y - 1) \div 400)

RECURSIVE DaysBeforeMonth(_, _)
DaysBeforeMonth(y, m) ==
  IF m = 1 THEN 0 ELSE DaysBeforeMonth(y, m - 1) + DaysInMonth(y, m - 1)

\* date(y, m, d).toordinal()
Ymd2Ord(y, m, d) == DaysBeforeYear(y) + DaysBeforeMonth(y, m) + d

\* date.fromordinal(n) as <<year, month, day>>
Ord2Ymd(n) ==
  LET n0 == n - 1
      n400 == n0 \div 146097
      r400 == n0 % 146097
      n100 == r400 \div 36524
      r100 == r400 % 36524
      n4 == r100 \div 1461
      r4 == r100 % 1461
      n1 == r4 \div 365
      r1 == r4 % 365
      year == n400 * 400 + 1 + n100 * 100 + n4 * 4 + n1
  IN  IF n1 = 4 \/ n100 = 4 THEN <<year - 1, 12, 31>>
      ELSE LET month == CHOOSE m \in 1..12 :
                          /\ DaysBeforeMonth(year, m) <= r1
                          /\ r1 < DaysBeforeMonth(year, m) + DaysInMonth(year, m)
           IN  <<year, month, r1 - DaysBeforeMonth(year, month) + 1>>

\* str(n) zero-padded on the left to w digits
RECURSIVE ZeroPad(_, _)
ZeroPad(n, w) ==
  IF w = 0 THEN "" ELSE ZeroPad(n \div 10, w - 1) \o Digits[(n % 10) + 1]

\* d.strftime("%Y%m%d")
Strftime(ord) ==
  LET ymd == Ord2Ymd(ord)
  IN  ZeroPad(ymd[1], 4) \o ZeroPad(ymd[2], 2) \o ZeroPad(ymd[3], 2)

\* today - timedelta(days=n): OverflowError when n exceeds timedelta's range
\* or the result falls before date.min.
MinusDays(today, n) ==
  IF n > 999999999
  THEN Raise("OverflowError",
             "days=" \o IntToStr(n) \o "; must have magnitude <= 999999999")
  ELSE IF today - n < 1
  THEN Raise("OverflowError", "date value out of range")
  ELSE Return(today - n)

\* The values datetime.now() takes in the model.
TodaySet == {Ymd2Ord(2024, 3, 3), Ymd2Ord(2025, 1, 1), Ymd2Ord(2026, 11, 4)}

(***************************************************************************)
(* The interval parser of the executionlogs tool.                          *)
(***************************************************************************)
Upper == "ABCDEFGHIJKLMNOPQRSTUVWXYZ"
Lower == "abcdefghijklmnopqrstuvwxyz"

LowerChar(c) ==
  IF \E i \in 1..26 : CharAt(Upper, i) = c
  THEN CharAt(Lower, CHOOSE i \in 1..26 : CharAt(Upper, i) = c)
  ELSE c

\* s.lower()
RECURSIVE StrLower(_)
StrLower(s) ==
  IF s = "" THEN "" ELSE LowerChar(CharAt(s, 1)) \o StrLower(SubSeq(s, 2, Len(s)))

\* sub in s
Contains(sub, s) ==
  \E i \in 1..(Len(s) - Len(sub) + 1) : SubSeq(s, i, i + Len(sub) - 1) = sub

IsDigit(c) == \E i \in 1..10 : Digits[i] = c

\* ''.join(filter(str.isdigit, s))
RECURSIVE FilterDigits(_)
FilterDigits(s) ==
  IF s = "" THEN ""
  ELSE (IF IsDigit(CharAt(s, 1)) THEN CharAt(s, 1) ELSE "")
       \o FilterDigits(SubSeq(s, 2, Len(s)))

DigitValue(c) == (CHOOSE i \in 1..10 : Digits[i] = c) - 1

RECURSIVE DecimalValue(_)
DecimalValue(s) ==
  IF s = "" THEN 0
  ELSE DecimalValue(SubSeq(s, 1, Len(s) - 1)) * 10 + DigitValue(CharAt(s, Len(s)))

\* int(s) for a string of ASCII digits: ValueError on the empty string
ParseInt(s) ==
  IF s = "" THEN Raise("ValueError", "invalid literal for int() with base 10: ''")
  ELSE Return(DecimalValue(s))

\* The parser with a month as the window of an unrecognised phrase.
StartDateDefaultMonth(phrase, today) ==
  LET interval == StrLower(phrase)
  IN  IF Contains("last week", interval) THEN MinusDays(today, 7)
      ELSE IF Contains("last month", interval) THEN MinusDays(today, 30)
      ELSE IF Contains("last", interval) /\ Contains("days", interval)
      THEN LET days == ParseInt(FilterDigits(interval))
           IN  IF days.k = "raise"
               THEN (IF days.exc = "ValueError" THEN MinusDays(today, 7) ELSE days)
               ELSE MinusDays(today, days.value)
      ELSE MinusDays(today, 30)

\* The parser without the except ValueError clause of lines 354-355.
StartDateNoFallback(phrase, today) ==
  LET interval == StrLower(phrase)
  IN  IF Contains("last week", interval) THEN MinusDays(today, 7)
      ELSE IF Contains("last month", interval) THEN MinusDays(today, 30)
      ELSE IF Contains("last", interval) /\ Contains("days", interval)
      THEN LET days == ParseInt(FilterDigits(interval))
           IN  IF days.k = "raise" THEN days ELSE MinusDays(today, days.value)
      ELSE MinusDays(today, 7)

\* Lines 345-357: the start date for a phrase, or the exception that escapes.
StartDate(phrase, today) ==
  LET interval == StrLower(phrase)
  IN  IF Contains("last week", interval) THEN MinusDays(today, 7)
      ELSE IF Contains("last month", interval) THEN MinusDays(today, 30)
      ELSE IF Contains("last", interval) /\ Contains("days", interval)
      THEN LET days == ParseInt(FilterDigits(interval))
           IN  IF days.k = "raise"
               THEN (IF days.exc = "ValueError" THEN MinusDays(today, 7) ELSE days)
               ELSE MinusDays(today, days.value)
      ELSE MinusDays(today, 7)

(***************************************************************************)
(* Exceptions.  Every class the program can meet derives from Exception.   *)
(***************************************************************************)
ExceptionClasses ==
  {"ValueError", "JSONDecodeError", "KeyError", "TypeError", "AttributeError",
   "OverflowError", "ClientConnectorError", "ClientResponseError"}

\* isinstance(e, cls), for the classes named in the except clauses
IsInstance(e, cls) ==
  IF cls = "Exception" THEN e.exc \in ExceptionClasses
  ELSE IF cls = "ValueError" THEN e.exc \in {"ValueError", "JSONDecodeError"}
  ELSE e.exc = cls

(***************************************************************************)
(* OpsbeaconClient: the requests its four operations send.                 *)
(***************************************************************************)
NoPayload == PyNone

ListCommandsRequest ==
  [method |-> "GET", path |-> "/workspace/v2/commands",
   params |-> PyNone, json |-> NoPayload]

ListConnectionsRequest ==
  [method |-> "GET", path |-> "/workspace/v2/connections",
   params |-> PyNone, json |-> NoPayload]

GetExecutionLogsRequest(start_date, end_date, page, limit) ==
  [method |-> "GET", path |-> "/workspace/v2/eventlogs",
   params |-> PyDict(<< <<"startDate", PyStr(start_date)>>,
                        <<"endDate", PyStr(end_date)>>,
                        <<"page", PyStr(PyToStr(page))>>,
                        <<"limit", PyStr(PyToStr(limit))>>,
                        <<"orderBy", PyStr("timestamp")>>,
                        <<"direction", PyStr("desc")>> >>),
   json |-> NoPayload]

\* Lines 131-134: arguments is None or a list of (name, value) tuples.
RECURSIVE AppendArguments(_, _, _)
AppendArguments(cmd_line, arguments, i) ==
  IF i > Len(arguments) THEN cmd_line
  ELSE AppendArguments(
         cmd_line \o " --" \o PyToStr(arguments[i][1]) \o " "
                  \o PyToStr(arguments[i][2]),
         arguments, i + 1)

\* The command line with a repeated (name, value) pair written once.
RECURSIVE AppendDistinctArguments(_, _, _)
AppendDistinctArguments(cmd_line, arguments, i) ==
  IF i > Len(arguments) THEN cmd_line
  ELSE AppendDistinctArguments(
         IF \E j \in 1..(i - 1) : arguments[j] = arguments[i] THEN cmd_line
         ELSE cmd_line \o " --" \o PyToStr(arguments[i][1]) \o " "
                       \o PyToStr(arguments[i][2]),
         arguments, i + 1)

BuildCommandLineDistinct(connection, command, arguments) ==
  LET cmd_line == PyToStr(connection) \o " " \o PyToStr(command)
  IN  IF IsList(arguments) /\ arguments.list # <<>>
      THEN AppendDistinctArguments(cmd_line, arguments.list, 1)
      ELSE cmd_line

\* Lines 131-134: cmd_line, from the connection, the command and arg_list.
BuildCommandLine(connection, command, arguments) ==
  LET cmd_line == PyToStr(connection) \o " " \o PyToStr(command)
  IN  IF IsList(arguments) /\ arguments.list # <<>>
      THEN AppendArguments(cmd_line, arguments.list, 1)
      ELSE cmd_line

ExecuteOperationRequest(connection, command, arguments) ==
  [method |-> "POST", path |-> "/trigger/v1/api", params |-> PyNone,
   json |-> PyDict(<< <<"commandLine",
                        PyStr(BuildCommandLine(connection, command, arguments))>> >>)]

(***************************************************************************)
(* The downstream service: what one request can come back with.            *)
(***************************************************************************)
Bodies == {"[]", "[\"deploy\", \"restart\"]", "{\"status\": \"ok\"}", "not json", ""}

Statuses == {200, 204, 304, 404, 500}

Outcomes ==
  {[kind |-> "connfail", status |-> 0, body |-> ""]}
  \cup {[kind |-> "response", status |-> st, body |-> b] : st \in Statuses, b \in Bodies}

\* json.loads(text) on the bodies of the model
JsonLoads(text) ==
  IF text = "[]" THEN Return(PyList(<<>>))
  ELSE IF text = "[\"deploy\", \"restart\"]"
  THEN Return(PyList(<<PyStr("deploy"), PyStr("restart")>>))
  ELSE IF text = "{\"status\": \"ok\"}"
  THEN Return(PyDict(<< <<"status", PyStr("ok")>> >>))
  ELSE Raise("JSONDecodeError", "Expecting value: line 1 column 1 (char 0)")

\* response.raise_for_status(): aiohttp raises for a status of 400 or above
RaiseForStatus(o) ==
  IF o.status >= 400
  THEN Raise("ClientResponseError", IntToStr(o.status) \o ", message='error'")
  ELSE Return(PyNone)

\* The operation without the except json.JSONDecodeError clause.
ReadResponseNoFallback(o) ==
  IF o.kind = "connfail"
  THEN Raise("ClientConnectorError", "Cannot connect to host")
  ELSE IF RaiseForStatus(o).k = "raise" THEN RaiseForStatus(o)
  ELSE JsonLoads(o.body)

\* The body of each operation from the response on (lines 74-84, 90-100,
\* 115-125, 143-153): the decoded value, the fallback object, or the failure,
\* which the operation logs and re-raises.
ReadResponse(o) ==
  IF o.kind = "connfail"
  THEN Raise("ClientConnectorError", "Cannot connect to host")
  ELSE IF RaiseForStatus(o).k = "raise" THEN RaiseForStatus(o)
  ELSE LET decoded == JsonLoads(o.body)
       IN  IF decoded.k = "raise" /\ IsInstance(decoded, "JSONDecodeError")
           THEN Return(PyDict(<< <<"error", PyStr("Invalid response format")>>,
                                 <<"response", PyStr(o.body)>> >>))
           ELSE decoded

\* An operation that sends the request again after a failure.
SendsAgainOnFailure(c) == c.k = "raise"

\* The except clause of each operation (lines 82-84, 98-100, 123-125, 151-153)
\* logs the failure and re-raises it: whatever the completion c of the request,
\* the operation never sends the request a second time.
SendsAgain(c) == FALSE

\* _get_session without the test of session.closed.
GetSessionIgnoringClosed(sess, closedSet, n) ==
  IF sess = 0 THEN n + 1 ELSE sess

\* Lines 58-68: the session an operation uses, given self.session (0 is None),
\* the closed sessions and the number of sessions created so far.
GetSession(sess, closedSet, n) ==
  IF sess = 0 \/ sess \in closedSet THEN n + 1 ELSE sess

\* close() without the test that a session exists.
CloseWithoutNoneTest(sess, closedSet) ==
  IF sess = 0
  THEN Raise("AttributeError", "'NoneType' object has no attribute 'closed'")
  ELSE IF sess \notin closedSet THEN Return(closedSet \cup {sess})
  ELSE Return(closedSet)

\* Lines 155-159: close(), as the completion carrying the closed sessions.
Close(sess, closedSet) ==
  IF sess # 0 /\ sess \notin closedSet
  THEN Return(closedSet \cup {sess})
  ELSE Return(closedSet)

(***************************************************************************)
(* handle_call_tool: argument validation and shaping.                      *)
(***************************************************************************)
ToolNames == {"list_commands", "list_connections", "execute", "executionlogs"}

\* Line 322: [(arg["name"], arg["value"]) for arg in arguments["arguments"]]
\* over the elements xs the value iterates to.
RECURSIVE ConvertItems(_, _, _)
ConvertItems(xs, i, acc) ==
  IF i > Len(xs) THEN Return(PyList(acc))
  ELSE LET arg == xs[i]
       IN  IF IsStr(arg)
           THEN Raise("TypeError", "string indices must be integers, not 'str'")
           ELSE IF ~IsDict(arg)
           THEN Raise("TypeError", "object is not subscriptable")
           ELSE IF ~HasKey(arg, "name") THEN Raise("KeyError", "'name'")
           ELSE IF ~HasKey(arg, "value") THEN Raise("KeyError", "'value'")
           ELSE ConvertItems(xs, i + 1,
                             Append(acc, <<Lookup(arg, "name"), Lookup(arg, "value")>>))

RECURSIVE Chars(_)
Chars(s) ==
  IF s = "" THEN <<>> ELSE <<PyStr(CharAt(s, 1))>> \o Chars(SubSeq(s, 2, Len(s)))

\* Lines 320-322: arg_list, or the exception building it raises.
ConvertArguments(arguments) ==
  IF HasKey(arguments, "arguments") /\ Truthy(Lookup(arguments, "arguments"))
  THEN LET v == Lookup(arguments, "arguments")
       IN  IF IsList(v) THEN ConvertItems(v.list, 1, <<>>)
           ELSE IF IsStr(v) THEN ConvertItems(Chars(v.str), 1, <<>>)
           ELSE IF IsDict(v)
           THEN ConvertItems([i \in 1..Len(v.dict) |-> PyStr(v.dict[i][1])], 1, <<>>)
           ELSE Raise("TypeError", "'int' object is not iterable")
  ELSE Return(PyNone)

\* The validation with the command left unchecked.
ExecutePrepareConnectionOnly(arguments) ==
  IF ~Truthy(arguments) THEN Raise("ValueError", "Missing required arguments")
  ELSE LET connection == DictGet(arguments, "connection", PyNone)
           command == DictGet(arguments, "command", PyNone)
       IN  IF ~Truthy(connection)
           THEN Raise("ValueError", "Both connection and command are required")
           ELSE LET arg_list == ConvertArguments(arguments)
                IN  IF arg_list.k = "raise" THEN arg_list
                    ELSE [k |-> "request",
                          req |-> ExecuteOperationRequest(connection, command,
                                                          arg_list.value)]

\* Lines 311-324, up to the call of client.execute_operation.
ExecutePrepare(arguments) ==
  IF ~Truthy(arguments) THEN Raise("ValueError", "Missing required arguments")
  ELSE LET connection == DictGet(arguments, "connection", PyNone)
           command == DictGet(arguments, "command", PyNone)
       IN  IF ~Truthy(connection) \/ ~Truthy(command)
           THEN Raise("ValueError", "Both connection and command are required")
           ELSE LET arg_list == ConvertArguments(arguments)
                IN  IF arg_list.k = "raise" THEN arg_list
                    ELSE [k |-> "request",
                          req |-> ExecuteOperationRequest(connection, command,
                                                          arg_list.value)]

\* The key the specification names.
RequiredLogsArgumentTimeframe == "timeframe"

\* Line 338: the argument the executionlogs case requires.
RequiredLogsArgument == "interval"

\* Lines 338-372, up to the call of client.get_execution_logs.
ExecutionLogsPrepare(arguments, today) ==
  IF ~Truthy(arguments) \/ ~HasKey(arguments, RequiredLogsArgument)
  THEN Raise("ValueError", "Missing required interval argument")
  ELSE IF ~HasKey(arguments, "interval") THEN Raise("KeyError", "'interval'")
  ELSE LET v == Lookup(arguments, "interval")
       IN  IF ~IsStr(v)
           THEN Raise("AttributeError", "object has no attribute 'lower'")
           ELSE LET start_date == StartDate(v.str, today)
                IN  IF start_date.k = "raise" THEN start_date
                    ELSE [k |-> "request",
                          req |-> GetExecutionLogsRequest(
                                    Strftime(start_date.value), Strftime(today),
                                    DictGet(arguments, "page", PyInt(1)),
                                    DictGet(arguments, "limit", PyInt(10)))]

\* Lines 247-270: the required list of the executionlogs input schema.
ExecutionLogsSchemaRequired == <<"interval">>

(***************************************************************************)
(* handle_call_tool: results.                                              *)
(***************************************************************************)
TextContent(text) == [type |-> "text", text |-> text]

TextContentWithArtifact(value) ==
  [type |-> "text", text |-> PyToStr(value),
   artifact |-> [type |-> "json", data |-> value]]

Verb(name) ==
  IF name = "list_commands" THEN "listing commands"
  ELSE IF name = "list_connections" THEN "listing connections"
  ELSE IF name = "execute" THEN "executing operation"
  ELSE "getting execution logs"

\* A case that catches ValueError alone.
CaseCatchesValueErrorOnly(e) == IsInstance(e, "ValueError")

\* The except clause of each case (lines 291, 305, 332, 380).
CaseCatches(e) == IsInstance(e, "Exception")

\* One case of the match, from the completion c of its try body.
ToolCase(name, c) ==
  IF c.k = "return" THEN Return(<<TextContentWithArtifact(c.value)>>)
  ELSE IF CaseCatches(c)
  THEN Return(<<TextContent("Error " \o Verb(name) \o ": " \o c.msg)>>)
  ELSE c

\* The default case raising instead of returning.
UnknownToolRaises(name) == Raise("ValueError", "Unknown tool: " \o name)

\* Lines 384-386.
UnknownTool(name) == Return(<<TextContent("Unknown tool: " \o name)>>)

\* Lines 388-390: the outer except clause, around the completion of the match.
OuterTry(c) ==
  IF c.k = "raise" /\ IsInstance(c, "Exception")
  THEN Return(<<TextContent("Error: " \o c.msg)>>)
  ELSE c

\* Lines 280-386 up to the first await: a request to send, or the completion
\* of the match when the case ends without one.
Dispatch(name, arguments, today) ==
  IF name = "list_commands" THEN [k |-> "request", req |-> ListCommandsRequest]
  ELSE IF name = "list_connections"
  THEN [k |-> "request", req |-> ListConnectionsRequest]
  ELSE IF name = "execute"
  THEN LET p == ExecutePrepare(arguments)
       IN  IF p.k = "request" THEN p ELSE ToolCase(name, p)
  ELSE IF name = "executionlogs"
  THEN LET p == ExecutionLogsPrepare(arguments, today)
       IN  IF p.k = "request" THEN p ELSE ToolCase(name, p)
  ELSE UnknownTool(name)

(***************************************************************************)
(* The calls a host can make: names and argument mappings.                 *)
(***************************************************************************)
Absent == [absent |-> TRUE]

Opt(key, v) == IF v = Absent THEN <<>> ELSE << <<key, v>> >>

ArgPairs == {<<"x", "1">>, <<"y", "2">>, <<"x", "2">>}

ArgItem(p) == PyDict(<< <<"name", PyStr(p[1])>>, <<"value", PyStr(p[2])>> >>)

ArgLists ==
  UNION {{PyList([i \in 1..n |-> ArgItem(f[i])]) : f \in [1..n -> ArgPairs]} :
           n \in 0..MaxArgs}

BadArgValues ==
  {PyStr("ab"), PyInt(5),
   PyList(<<PyDict(<< <<"name", PyStr("x")>> >>)>>),
   PyList(<<ArgItem(<<"x", "1">>), PyStr("oops")>>)}

ExecuteArguments ==
  {PyNone, PyDict(<<>>)}
  \cup {PyDict(Opt("connection", c) \o Opt("command", m) \o Opt("arguments", a)) :
          c \in {Absent, PyStr(""), PyStr("db1"), PyInt(7)},
          m \in {Absent, PyStr(""), PyStr("run")},
          a \in {Absent} \cup ArgLists \cup BadArgValues}

Phrases ==
  {"today", "yesterday", "last week", "", "banana", "last month", "last 3 days",
   "Last Week", "last days", "3 days since last deploy", "last 2 days 5 hours",
   "last week of last month", "last 999999 days", "last 1000000000 days"}

ExecutionLogsArguments ==
  {PyNone, PyDict(<<>>)}
  \cup {PyDict(Opt("interval", i) \o Opt("timeframe", t) \o Opt("page", pl[1])
               \o Opt("limit", pl[2])) :
          i \in {Absent, PyInt(3)} \cup {PyStr(p) : p \in Phrases},
          t \in {Absent, PyStr("today")},
          pl \in {<<Absent, Absent>>, <<PyInt(2), PyInt(50)>>}}

PlainArguments == {PyNone, PyDict(<<>>), PyDict(<< <<"verbose", PyInt(1)>> >>)}

CallNames == ToolNames \cup {"bogus", "Execute", ""}

\* What a host may pass with a name that is no tool: nothing, or the
\* arguments of a well-formed call of a registered tool.
UnknownToolArguments ==
  PlainArguments
  \cup {PyDict(<< <<"connection", PyStr("db1")>>, <<"command", PyStr("run")>> >>),
        PyDict(<< <<"interval", PyStr("last week")>> >>)}

ArgumentsFor(name) ==
  IF name = "execute" THEN ExecuteArguments
  ELSE IF name = "executionlogs" THEN ExecutionLogsArguments
  ELSE IF name \in ToolNames THEN PlainArguments
  ELSE UnknownToolArguments

(***************************************************************************)
(* The state machine.                                                      *)
(***************************************************************************)
NoCall == [name |-> "", arguments |-> PyNone, today |-> 0]
NoRequest == [method |-> "", path |-> "", params |-> PyNone, json |-> NoPayload]
NoResult == [k |-> "none"]
NoOutcome == [kind |-> "none", status |-> 0, body |-> ""]

\* Lines 24-28 and 164: the client after construction, no call made yet.
Init ==
  /\ session = 0
  /\ closedS = {}
  /\ created = 0
  /\ initialized = FALSE
  /\ pc = "idle"
  /\ call = NoCall
  /\ request = NoRequest
  /\ reqCount = 0
  /\ outcome = NoOutcome
  /\ result = NoResult
  /\ lastOp = "init"
  /\ closeRun = 0

\* handle_call_tool from its entry to its first await (the request is sent on
\* the session _get_session returns) or, when no request is made, to its end.
CallTool(name, arguments, today) ==
  /\ pc = "idle"
  /\ call' = [name |-> name, arguments |-> arguments, today |-> today]
  /\ lastOp' = "call"
  /\ closeRun' = 0
  /\ outcome' = NoOutcome
  /\ LET d == Dispatch(name, arguments, today)
     IN  IF d.k = "request"
         THEN /\ GetSession(session, closedS, created) <= MaxSessions
              /\ session' = GetSession(session, closedS, created)
              /\ created' = IF session' > created THEN session' ELSE created
              /\ request' = d.req
              /\ reqCount' = 1
              /\ result' = NoResult
              /\ pc' = "awaiting"
         ELSE /\ result' = OuterTry(d)
              /\ request' = NoRequest
              /\ reqCount' = 0
              /\ pc' = "returning"
              /\ UNCHANGED <<session, created>>
  /\ UNCHANGED <<closedS, initialized>>

\* The rest of handle_call_tool: the operation reads the response (or fails),
\* the case wraps what it returned or raised, and the handler returns.
Respond(o) ==
  /\ pc = "awaiting"
  /\ outcome' = o
  /\ lastOp' = "respond"
  /\ IF SendsAgain(ReadResponse(o))
     THEN /\ reqCount' = reqCount + 1
          /\ UNCHANGED <<pc, result>>
     ELSE /\ result' = OuterTry(ToolCase(call.name, ReadResponse(o)))
          /\ pc' = "returning"
          /\ UNCHANGED reqCount
  /\ UNCHANGED <<session, closedS, created, initialized, call, request, closeRun>>

\* The handler's result (or the exception that escaped it) reaches the server
\* loop, which goes back to waiting for the next request.
Deliver ==
  /\ pc = "returning"
  /\ pc' = "idle"
  /\ call' = NoCall
  /\ request' = NoRequest
  /\ reqCount' = 0
  /\ outcome' = NoOutcome
  /\ result' = NoResult
  /\ lastOp' = "deliver"
  /\ UNCHANGED <<session, closedS, created, initialized, closeRun>>

\* client.close() (lines 155-159, called at lines 412 and test_server.py:40),
\* between calls.
DoClose ==
  /\ pc = "idle"
  /\ LET c == Close(session, closedS)
     IN  /\ closedS' = IF c.k = "return" THEN c.value ELSE closedS
         /\ initialized' = IF c.k = "return" /\ c.value # closedS
                           THEN FALSE ELSE initialized
         /\ result' = IF c.k = "return" THEN NoResult ELSE c
  /\ lastOp' = "close"
  /\ closeRun' = IF closeRun < 2 THEN closeRun + 1 ELSE closeRun
  /\ UNCHANGED <<session, created, pc, call, request, reqCount, outcome>>

Next ==
  \/ \E name \in CallNames : \E arguments \in ArgumentsFor(name) :
       \E today \in TodaySet : CallTool(name, arguments, today)
  \/ \E o \in Outcomes : Respond(o)
  \/ Deliver
  \/ DoClose

Spec == Init /\ [][Next]_vars

(***************************************************************************)
(* Properties.                                                             *)
(***************************************************************************)
HasPrefix(p, s) == Len(s) >= Len(p) /\ SubSeq(s, 1, Len(p)) = p

Returning(name) == pc = "returning" /\ call.name = name

\* The text of the single content item of the result.
ResultText == result.value[1].text

ErrorPrefix ==
  IF call.name = "list_commands" THEN "Error listing commands: "
  ELSE IF call.name = "list_connections" THEN "Error listing connections: "
  ELSE IF call.name = "execute" THEN "Error executing operation: "
  ELSE "Error getting execution logs: "

ConnectionFailed == outcome.kind = "connfail"
ErrorStatus == outcome.kind = "response" /\ outcome.status >= 400
Non2xxStatus == outcome.kind = "response" /\ outcome.status \notin 200..299

C1_WitnessTransport ==
  /\ Returning("list_connections")
  /\ ConnectionFailed
  /\ ResultText = "Error listing connections: Cannot connect to host"

ArgumentMissingOrEmpty(a, key) ==
  \/ ~IsDict(a)
  \/ ~HasKey(a, key)
  \/ Lookup(a, key) = PyStr("")

ConnectionOrCommandMissing ==
  \/ ArgumentMissingOrEmpty(call.arguments, "connection")
  \/ ArgumentMissingOrEmpty(call.arguments, "command")

NoArgumentsMapping == call.arguments = PyNone \/ call.arguments = PyDict(<<>>)

\* C2 as stated: an execute call with connection or command missing or empty,
\* the call without an arguments mapping included, reports "Both connection
\* and command are required" and makes no request.
C2_Original ==
  (Returning("execute") /\ ConnectionOrCommandMissing) =>
    /\ ResultText = "Error executing operation: Both connection and command are required"
    /\ reqCount = 0

\* C2 amended: such a call makes no request and returns one error text, which
\* is "Error executing operation: Missing required arguments" when the
\* arguments mapping is absent or empty and "Error executing operation: Both
\* connection and command are required" otherwise.
C2_ValidationErrorNoRequest ==
  (Returning("execute") /\ ConnectionOrCommandMissing) =>
    /\ reqCount = 0
    /\ request = NoRequest
    /\ outcome = NoOutcome
    /\ result = Return(<<[type |-> "text",
                          text |-> IF NoArgumentsMapping
                                   THEN "Error executing operation: Missing required arguments"
                                   ELSE "Error executing operation: Both connection and command are required"]>>)

\* C2 witness: execute with an empty connection and a command has returned.
C2_Witness ==
  /\ Returning("execute")
  /\ IsDict(call.arguments)
  /\ DictGet(call.arguments, "connection", PyNone) = PyStr("")
  /\ DictGet(call.arguments, "command", PyNone) = PyStr("run")
  /\ ResultText = "Error executing operation: Both connection and command are required"

\* C2 witness of the other message: execute without an arguments mapping.
C2_WitnessNoMapping ==
  /\ Returning("execute")
  /\ call.arguments = PyNone
  /\ ResultText = "Error executing operation: Missing required arguments"

\* The execute calls the schema accepts: connection and command non-empty
\* strings, arguments absent or a list of {name, value} string pairs.
IsPairList(v) ==
  /\ IsList(v)
  /\ \A i \in 1..Len(v.list) :
       /\ IsDict(v.list[i])
       /\ HasKey(v.list[i], "name") /\ IsStr(Lookup(v.list[i], "name"))
       /\ HasKey(v.list[i], "value") /\ IsStr(Lookup(v.list[i], "value"))

ValidExecuteCall ==
  /\ call.name = "execute"
  /\ IsDict(call.arguments)
  /\ HasKey(call.arguments, "connection")
  /\ IsStr(Lookup(call.arguments, "connection"))
  /\ Lookup(call.arguments, "connection") # PyStr("")
  /\ HasKey(call.arguments, "command")
  /\ IsStr(Lookup(call.arguments, "command"))
  /\ Lookup(call.arguments, "command") # PyStr("")
  /\ HasKey(call.arguments, "arguments") => IsPairList(Lookup(call.arguments, "arguments"))

GivenPairs ==
  IF HasKey(call.arguments, "arguments")
  THEN Lookup(call.arguments, "arguments").list ELSE <<>>

\* " --n_i v_i" for the pairs i..k, built from the last pair backwards.
RECURSIVE ExpectedTail(_, _)
ExpectedTail(pairs, i) ==
  IF i > Len(pairs) THEN ""
  ELSE " --" \o Lookup(pairs[i], "name").str \o " " \o Lookup(pairs[i], "value").str
       \o ExpectedTail(pairs, i + 1)

SentCommandLine == Lookup(request.json, "commandLine").str

PairsAre(ps) ==
  /\ Len(GivenPairs) = Len(ps)
  /\ \A i \in 1..Len(ps) : GivenPairs[i] = ArgItem(ps[i])

\* C3: a valid execute call posts to /trigger/v1/api the body
\* {commandLine: c m --n1 v1 ... --nk vk}, every pair in input order, none
\* dropped or merged; db1/run/[x=1,y=2] gives "db1 run --x 1 --y 2".
C3_CommandLineInOrder ==
  (pc \in {"awaiting", "returning"} /\ ValidExecuteCall) =>
    /\ reqCount = 1
    /\ request.method = "POST"
    /\ request.path = "/trigger/v1/api"
    /\ request.json.dict = << <<"commandLine", PyStr(SentCommandLine)>> >>
    /\ SentCommandLine =
         Lookup(call.arguments, "connection").str \o " "
         \o Lookup(call.arguments, "command").str \o ExpectedTail(GivenPairs, 1)
    /\ PairsAre(<< <<"x", "1">>, <<"y", "2">> >>) => SentCommandLine = "db1 run --x 1 --y 2"
    /\ PairsAre(<< <<"y", "2">>, <<"x", "1">> >>) => SentCommandLine = "db1 run --y 2 --x 1"
    /\ PairsAre(<< <<"x", "1">>, <<"x", "1">> >>) => SentCommandLine = "db1 run --x 1 --x 1"
    /\ PairsAre(<<>>) => SentCommandLine = "db1 run"

\* C3 witness: db1/run/[x=1,y=2] is in flight with its command line.
C3_Witness ==
  /\ pc = "awaiting"
  /\ ValidExecuteCall
  /\ PairsAre(<< <<"x", "1">>, <<"y", "2">> >>)
  /\ SentCommandLine = "db1 run --x 1 --y 2"

\* C3 witness of duplicates: the same pair twice is sent twice.
C3_WitnessDuplicate ==
  /\ pc = "awaiting"
  /\ ValidExecuteCall
  /\ PairsAre(<< <<"x", "1">>, <<"x", "1">> >>)
  /\ SentCommandLine = "db1 run --x 1 --x 1"

\* The YYYYMMDD string of the day n days before today, for the days of the
\* model, written out from the calendar.
ExpectedDate(today, n) ==
  IF today = Ymd2Ord(2024, 3, 3)
  THEN (CASE n = 0 -> "20240303" [] n = 1 -> "20240302" [] n = 3 -> "20240229"
          [] n = 7 -> "20240225" [] n = 25 -> "20240207" [] n = 30 -> "20240202")
  ELSE IF today = Ymd2Ord(2025, 1, 1)
  THEN (CASE n = 0 -> "20250101" [] n = 1 -> "20241231" [] n = 3 -> "20241229"
          [] n = 7 -> "20241225" [] n = 25 -> "20241207" [] n = 30 -> "20241202")
  ELSE (CASE n = 0 -> "20261104" [] n = 1 -> "20261103" [] n = 3 -> "20261101"
          [] n = 7 -> "20261028" [] n = 25 -> "20261010" [] n = 30 -> "20261005")

LogsCall == pc \in {"awaiting", "returning"} /\ call.name = "executionlogs"

HasStringArgument(key) ==
  /\ IsDict(call.arguments)
  /\ HasKey(call.arguments, key)
  /\ IsStr(Lookup(call.arguments, key))

PhraseIs(p) == HasStringArgument("interval") /\ Lookup(call.arguments, "interval") = PyStr(p)

GivenPhrase == Lookup(call.arguments, "interval").str

SentStart == Lookup(request.params, "startDate").str
SentEnd == Lookup(request.params, "endDate").str

\* The request of the call is GET /workspace/v2/eventlogs for the window
\* from n days before the current date to the current date.
SendsWindow(n) ==
  /\ reqCount = 1
  /\ request.method = "GET"
  /\ request.path = "/workspace/v2/eventlogs"
  /\ SentStart = ExpectedDate(call.today, n)
  /\ SentEnd = ExpectedDate(call.today, 0)

\* C4 as stated: "today" sends startDate = endDate = the current date, and
\* "yesterday" sends startDate = endDate = the day before.
C4_Original ==
  /\ (LogsCall /\ PhraseIs("today")) =>
       /\ reqCount = 1
       /\ SentStart = ExpectedDate(call.today, 0)
       /\ SentEnd = ExpectedDate(call.today, 0)
  /\ (LogsCall /\ PhraseIs("yesterday")) =>
       /\ reqCount = 1
       /\ SentStart = ExpectedDate(call.today, 1)
       /\ SentEnd = ExpectedDate(call.today, 1)

\* C4 amended: neither "today" nor "yesterday" is recognised; both send the
\* default window, startDate = the current date minus 7 days and endDate =
\* the current date.
C4_TodayYesterdayDefaultWindow ==
  (LogsCall /\ (PhraseIs("today") \/ PhraseIs("yesterday"))) => SendsWindow(7)

\* C4 witness: the request of a "today" call on 2025-01-01 is in flight, for
\* 20241225 to 20250101.
C4_Witness ==
  /\ pc = "awaiting"
  /\ call.name = "executionlogs"
  /\ PhraseIs("today")
  /\ SentStart = "20241225"
  /\ SentEnd = "20250101"

\* C5 as stated: every phrase other than "today" and "yesterday" resolves
\* without an exception to the window of "last week".
C5_Original ==
  (LogsCall /\ HasStringArgument("interval")
     /\ ~PhraseIs("today") /\ ~PhraseIs("yesterday")) => SendsWindow(7)

\* The day count the parser reads from a phrase: 7 for "last week", 30 for
\* "last month", the number its digits spell for "last ... days", 7 otherwise.
PhraseDays(p) ==
  LET l == StrLower(p)
  IN  IF Contains("last week", l) THEN 7
      ELSE IF Contains("last month", l) THEN 30
      ELSE IF Contains("last", l) /\ Contains("days", l) /\ FilterDigits(l) # ""
      THEN DecimalValue(FilterDigits(l))
      ELSE 7

\* The phrases of the model and the day counts read off them by hand.
PhraseTable ==
  {<<"last week", 7>>, <<"", 7>>, <<"banana", 7>>, <<"Last Week", 7>>,
   <<"last days", 7>>, <<"last week of last month", 7>>, <<"last month", 30>>,
   <<"last 3 days", 3>>, <<"3 days since last deploy", 3>>,
   <<"last 2 days 5 hours", 25>>}

OutOfRangePhrases == {"last 999999 days", "last 1000000000 days"}

\* C5 amended: a phrase other than "today" and "yesterday" resolves to
\* start = the current date minus N days, end = the current date, where N is
\* 7 when the lower-cased phrase contains "last week", else 30 when it
\* contains "last month", else the number its digits spell when it contains
\* "last" and "days" and a digit, else 7; the resolution raises only when N
\* days before the current date is no date, and the call then ends with an
\* error text and no request.
C5_WindowByPhrase ==
  (LogsCall /\ HasStringArgument("interval")
     /\ ~PhraseIs("today") /\ ~PhraseIs("yesterday")) =>
    /\ PhraseDays(GivenPhrase) < call.today => SendsWindow(PhraseDays(GivenPhrase))
    /\ PhraseDays(GivenPhrase) >= call.today =>
         /\ reqCount = 0
         /\ result.k = "return"
         /\ HasPrefix("Error getting execution logs: ", ResultText)
    /\ \A row \in PhraseTable : GivenPhrase = row[1] => SendsWindow(row[2])
    /\ GivenPhrase \in OutOfRangePhrases => reqCount = 0

\* C5 witness: "banana" on 2024-03-03 is in flight for 20240225 to 20240303.
C5_Witness ==
  /\ pc = "awaiting"
  /\ call.name = "executionlogs"
  /\ PhraseIs("banana")
  /\ SentStart = "20240225"
  /\ SentEnd = "20240303"

\* C5 witness of a day count: "last 2 days 5 hours" asks for 25 days.
C5_WitnessDays ==
  /\ pc = "awaiting"
  /\ PhraseIs("last 2 days 5 hours")
  /\ SentStart = "20261010"
  /\ SentEnd = "20261104"

\* C5 witness of the failure: an out-of-range day count has ended the call.
C5_WitnessOutOfRange ==
  /\ Returning("executionlogs")
  /\ PhraseIs("last 999999 days")
  /\ ResultText = "Error getting execution logs: date value out of range"

NonJsonBodies == {"not json", ""}

FallbackObject(text) ==
  PyDict(<< <<"error", PyStr("Invalid response format")>>, <<"response", PyStr(text)>> >>)

\* C6: for each of the four tools, a 2xx response whose body is not JSON
\* comes back on the success path: one text item rendering
\* {error: "Invalid response format", response: body}, with a JSON artifact
\* carrying that object, and no "Error ..." text.
C6_NonJsonIsSuccess ==
  (pc = "returning" /\ call.name \in ToolNames /\ outcome.kind = "response"
     /\ outcome.status \in 200..299 /\ outcome.body \in NonJsonBodies) =>
    /\ result =
         Return(<<[type |-> "text",
                   text |-> "{'error': 'Invalid response format', 'response': '"
                            \o outcome.body \o "'}",
                   artifact |-> [type |-> "json", data |-> FallbackObject(outcome.body)]]>>)
    /\ ~HasPrefix("Error", ResultText)

\* C6 witness: list_commands has returned the fallback object for "not json".
C6_Witness ==
  /\ Returning("list_commands")
  /\ outcome = [kind |-> "response", status |-> 200, body |-> "not json"]
  /\ ResultText = "{'error': 'Invalid response format', 'response': 'not json'}"
  /\ result.value[1].artifact.data = FallbackObject("not json")

LogsRequestSent ==
  /\ reqCount = 1
  /\ request.method = "GET"
  /\ request.path = "/workspace/v2/eventlogs"

\* C7 as stated: an executionlogs call with a `timeframe` string leads to
\* GET /workspace/v2/eventlogs, and one without `timeframe` returns an error
\* text and makes no request.
C7_Original ==
  /\ (LogsCall /\ HasStringArgument("timeframe")) => LogsRequestSent
  /\ (Returning("executionlogs") /\ ~HasStringArgument("timeframe")) =>
       /\ reqCount = 0
       /\ HasPrefix("Error getting execution logs: ", ResultText)

\* C7 amended: the field is `interval`.  A call with an `interval` string
\* passes validation and leads to GET /workspace/v2/eventlogs, unless the
\* phrase asks for a day count that reaches before the first date, which
\* ends the call with an error text; a call without `interval` returns
\* "Error getting execution logs: Missing required interval argument" and
\* makes no request, whether or not it carries `timeframe`.  The dispatcher
\* requires the field the registry advertises as required.
C7_IntervalRequired ==
  /\ ExecutionLogsSchemaRequired = <<"interval">>
  /\ ExecutionLogsSchemaRequired = <<RequiredLogsArgument>>
  /\ (LogsCall /\ HasStringArgument("interval")) =>
       \/ LogsRequestSent
       \/ /\ GivenPhrase \in OutOfRangePhrases
          /\ reqCount = 0
          /\ ResultText # "Error getting execution logs: Missing required interval argument"
  /\ (Returning("executionlogs")
        /\ ~(IsDict(call.arguments) /\ HasKey(call.arguments, "interval"))) =>
       /\ reqCount = 0
       /\ request = NoRequest
       /\ result = Return(<<[type |-> "text",
                             text |-> "Error getting execution logs: Missing required interval argument"]>>)

\* C7 witness: a call with `timeframe` and no `interval` has been rejected.
C7_Witness ==
  /\ Returning("executionlogs")
  /\ HasStringArgument("timeframe")
  /\ ~HasKey(call.arguments, "interval")
  /\ reqCount = 0
  /\ ResultText = "Error getting execution logs: Missing required interval argument"

\* C7 witness of the accepted call: `interval` alone has led to the request.
C7_WitnessAccepted ==
  /\ pc = "awaiting"
  /\ call.name = "executionlogs"
  /\ HasStringArgument("interval")
  /\ ~HasKey(call.arguments, "timeframe")
  /\ LogsRequestSent

LiveSessions == (1..created) \ closedS

SessionOpen == session # 0 /\ session \notin closedS

\* A step in which an operation obtains its session and sends its request.
OperationStarts == pc = "idle" /\ pc' = "awaiting"

\* The session in use after the step is open: the one held before when that
\* was open, and otherwise one that did not exist before the step.
SessionForOperation ==
  /\ session' \notin closedS
  /\ SessionOpen => (session' = session /\ created' = created)
  /\ ~SessionOpen => (session' \notin 1..created /\ created' = created + 1
                      /\ session' = created')

\* C8: the client holds at most one open session; an operation runs on an
\* open session, the existing one when it is open and a new one when the
\* session is absent or closed; a closed session carries no request again.
C8_OneLiveSession ==
  /\ [](Cardinality(LiveSessions) <= 1)
  /\ [](pc = "awaiting" => SessionOpen)
  /\ [][OperationStarts => SessionForOperation]_vars

\* C8 witness: after open, close, a second operation runs on a new session.
C8_Witness ==
  /\ pc = "awaiting"
  /\ created = 2
  /\ closedS = {1}
  /\ session = 2

\* C8 witness of reuse: a second operation runs on the session of the first.
C8_WitnessReuse ==
  /\ pc = "awaiting"
  /\ created = 1
  /\ session = 1
  /\ closedS = {}
  /\ lastOp = "call"
  /\ closeRun = 0

\* C9 as stated: close() does not raise, a repeated close() changes nothing,
\* and after close() the session is absent.
C9_Original ==
  lastOp = "close" => (result.k # "raise" /\ session = 0)

ClosedAndQuiet ==
  /\ result.k # "raise"
  /\ ~SessionOpen
  /\ LiveSessions = {}
  /\ (created = 0 <=> session = 0)

ClientUnchanged ==
  UNCHANGED <<session, closedS, created, initialized, pc, call, request,
              reqCount, outcome, result>>

\* C9 amended: close() on a never-opened client, or repeated, does not raise
\* and changes nothing; after close() the client holds no open session: the
\* session is absent when none was ever opened and otherwise the closed
\* session, which the client keeps.
C9_CloseIdempotent ==
  /\ [](lastOp = "close" => ClosedAndQuiet)
  /\ [][(lastOp' = "close" /\ ~SessionOpen) => ClientUnchanged]_vars

\* C9 witness: close() has run twice in a row on a client that had a session.
C9_Witness ==
  /\ lastOp = "close"
  /\ closeRun = 2
  /\ session = 1
  /\ closedS = {1}

\* C9 witness of the never-opened client: close() has run with no session.
C9_WitnessNeverOpened ==
  /\ lastOp = "close"
  /\ closeRun = 1
  /\ created = 0
  /\ session = 0

TransportErrorText ==
  IF ConnectionFailed THEN ErrorPrefix \o "Cannot connect to host"
  ELSE ErrorPrefix \o IntToStr(outcome.status) \o ", message='error'"

\* C10 as stated: a call issues at most one request, and a connection error
\* or a non-2xx status is the error result of that call.
C10_Original ==
  /\ reqCount <= 1
  /\ (pc = "returning" /\ call.name \in ToolNames
        /\ (ConnectionFailed \/ Non2xxStatus)) =>
       /\ result.k = "return"
       /\ HasPrefix(ErrorPrefix, ResultText)

\* C10 amended: a call issues at most one request; a connection error or a
\* status of 400 or above is not retried and is the error result of that
\* call, after which the server accepts the next call.  (A 1xx-3xx status
\* that reaches the client is read like a 2xx one.)
C10_AtMostOneRequest ==
  /\ reqCount <= 1
  /\ (pc = "returning" /\ call.name \in ToolNames
        /\ (ConnectionFailed \/ ErrorStatus)) =>
       /\ reqCount = 1
       /\ result = Return(<<[type |-> "text", text |-> TransportErrorText]>>)
       /\ ENABLED Deliver
  /\ pc = "awaiting" => reqCount = 1
  /\ pc = "idle" =>
       /\ reqCount = 0
       /\ ENABLED CallTool("execute", PyNone, Ymd2Ord(2026, 11, 4))

\* C10 witness: a 500 answer has been reported after one request.
C10_Witness ==
  /\ Returning("execute")
  /\ reqCount = 1
  /\ outcome.status = 500
  /\ ResultText = "Error executing operation: 500, message='error'"

RegisteredName ==
  call.name \in {"list_commands", "list_connections", "execute", "executionlogs"}

\* A step in which a call with an unregistered name enters the handler.
UnknownCallStarts ==
  /\ pc = "idle"
  /\ lastOp' = "call"
  /\ call'.name \notin {"list_commands", "list_connections", "execute", "executionlogs"}

\* Such a step ends the handler at once and leaves the client as it was.
EndsWithoutClient ==
  /\ pc' = "returning"
  /\ reqCount' = 0
  /\ UNCHANGED <<session, closedS, created, initialized>>

\* C11: a call whose name is none of the four registered tools, whatever its
\* arguments, returns exactly one text content item, "Unknown tool: {name}",
\* without raising, without a downstream request and without creating a
\* session.
C11_UnknownToolText ==
  /\ [](pc = "awaiting" => RegisteredName)
  /\ []((pc = "returning" /\ ~RegisteredName) =>
          /\ result = Return(<<[type |-> "text", text |-> "Unknown tool: " \o call.name]>>)
          /\ reqCount = 0
          /\ request = NoRequest
          /\ outcome = NoOutcome
          /\ (call.name = "bogus" => ResultText = "Unknown tool: bogus")
          /\ (call.name = "Execute" => ResultText = "Unknown tool: Execute")
          /\ (call.name = "" => ResultText = "Unknown tool: "))
  /\ [][UnknownCallStarts => EndsWithoutClient]_vars

\* C11 witness: "bogus", called with the arguments of a valid execute call
\* before any session exists, has returned its text.
C11_Witness ==
  /\ Returning("bogus")
  /\ IsDict(call.arguments)
  /\ HasKey(call.arguments, "connection")
  /\ created = 0
  /\ session = 0
  /\ result = Return(<<[type |-> "text", text |-> "Unknown tool: bogus"]>>)

\* C11 witness of the near miss: "Execute" is not "execute".
C11_WitnessCase ==
  /\ Returning("Execute")
  /\ reqCount = 0
  /\ ResultText = "Unknown tool: Execute"

====
